---------------------------- MODULE Spec2Model ----------------------------
(***************************************************************************)
(* Range planning and multi-file streaming of the S3 streamer              *)
(* (rust/src/lib.rs, rust/src/s3.rs).                                      *)
(*                                                                         *)
(*  - compute_file_ranges (lib.rs) is modelled as an operator on usize     *)
(*    values of a reduced width: every +, - of the source is evaluated     *)
(*    modulo UsizeMax + 1, and a build with overflow checks panics where   *)
(*    the unchecked build wraps.                                           *)
(*  - stream_files is modelled twice: the lazy stream of lib.rs            *)
(*    (impl = "lib") and the eager collector of s3.rs (impl = "s3").       *)
(*                                                                         *)
(* SpecPlan applies the planner to every file of a manifest; Spec runs     *)
(* stream_files against a store whose ranged reads succeed or fail.        *)
(***************************************************************************)
EXTENDS Integers, Sequences, FiniteSets

VARIABLES
    files,            \* the manifest: Seq of FileInfo
    byte_range,       \* (Option<start>, Option<end>), logical coordinates
    range_size,       \* chunk size of the fetch-range split
    overflow_checks,  \* TRUE: arithmetic overflow panics; FALSE: it wraps
    impl,             \* "plan" | "lib" | "s3": which code is running
    plan,             \* results of compute_file_ranges, one per planned file
    pc,               \* position of stream_files / of its consumer
    cur,              \* index of the file being streamed
    pos,              \* `pos` of the current file's loop
    gen,              \* where the current file's loop is suspended
    inflight,         \* the ranged read awaiting its response, if any
    requests,         \* every ranged read issued so far, in order
    responses,        \* outcome of every completed ranged read, in order
    output,           \* s3.rs: the `output` vector
    delivered,        \* what the consumer has received, in order
    pulls,            \* number of elements the consumer has asked for
    consumer,         \* "active" | "dropped": the consumer's end of the stream
    usize_max,        \* usize::MAX of the target
    fail_at,          \* paired runs: the ranged read that fails (0: none)
    observed,         \* paired runs: what the lazy stream issued and delivered
    body,             \* fetch_range_streaming: the bytes of the response body
    sub_chunk_size,   \* fetch_range_streaming: length of `buf`
    buf,              \* fetch_range_streaming: `buf`
    rpos,             \* fetch_range_streaming: bytes read from the body so far
    yielded,          \* fetch_range_streaming: the buffers yielded so far
    rpc               \* fetch_range_streaming: "idle" | "sending" | "reading" | "done" | "failed"

vars == <<files, byte_range, range_size, overflow_checks, impl, plan, pc, cur,
          pos, gen, inflight, requests, responses, output, delivered, pulls,
          consumer, usize_max, fail_at, observed, body, sub_chunk_size, buf, rpos,
          yielded, rpc>>

inputVars == <<files, byte_range, range_size, overflow_checks, impl, usize_max,
               fail_at>>

readerVars == <<body, sub_chunk_size, buf, rpos, yielded, rpc>>

\* what neither the planner nor stream_files touches
restVars == <<readerVars, observed>>

streamVars == <<pc, cur, pos, gen, inflight, requests, responses, output,
                delivered, pulls, consumer>>

---------------------------------------------------------------------------
(* Bounds of the model *)

UsizeMax == 15        \* usize::MAX of the reduced-width target
MaxFiles == 2         \* files per manifest
MaxSize == 3          \* FileInfo.size
MaxDataOffset == 1    \* FileInfo.data_start_offset
MaxRangeBound == 6    \* a present bound of byte_range
MaxRangeSize == 3     \* range_size
MaxBody == 4          \* bytes of a response body
MaxSubChunk == 3      \* sub_chunk_size

---------------------------------------------------------------------------
(* usize arithmetic *)

Min(a, b) == IF a <= b THEN a ELSE b

Max(a, b) == IF a >= b THEN a ELSE b

\* the value a wrapping build keeps of the exact result x
Wrap(x) == ((x % (usize_max + 1)) + (usize_max + 1)) % (usize_max + 1)

\* the exact result x is not representable
Overflows(x) == x < 0 \/ x > usize_max

\* a subtraction that wraps below zero
wrapping_sub(a, b) == Wrap(a - b)

\* usize::saturating_sub
saturating_sub(a, b) == IF a >= b THEN a - b ELSE 0

---------------------------------------------------------------------------
(* Data model *)

None == [some |-> FALSE, val |-> 0]

Some(v) == [some |-> TRUE, val |-> v]

FileInfo(size, file_start_offset, data_start_offset) ==
    [size |-> size,
     file_start_offset |-> file_start_offset,
     data_start_offset |-> data_start_offset]

RECURSIVE SumTo(_, _)
SumTo(sizes, n) == IF n = 0 THEN 0 ELSE sizes[n] + SumTo(sizes, n - 1)

\* a file starts at the head of its object or MaxDataOffset bytes into it
DataOffsets == {0, MaxDataOffset}

\* manifests laid out contiguously from logical offset 0, in manifest order
Manifests ==
    UNION { { [i \in 1..n |-> FileInfo(sizes[i], SumTo(sizes, i - 1), offs[i])] :
                sizes \in [1..n -> 0..MaxSize],
                offs \in [1..n -> DataOffsets] } : n \in 0..MaxFiles }

OptBounds == {None} \cup {Some(v) : v \in 0..MaxRangeBound}

ByteRanges == OptBounds \X OptBounds

RangeSizes == 1..MaxRangeSize

\* the planner is also given the largest chunk size there is
PlanRangeSizes == RangeSizes \cup {UsizeMax}

---------------------------------------------------------------------------
(* compute_file_ranges *)

Ranges(rs) == [kind |-> "Some", ranges |-> rs]

NoRanges == [kind |-> "None", ranges |-> <<>>]

\* arithmetic overflow in a build with overflow checks
Panic == [kind |-> "Panic", ranges |-> <<>>]

\* the chunking loop never exits (its vector grows until memory runs out)
Hang == [kind |-> "Hang", ranges |-> <<>>]

RECURSIVE ChunkLoop(_, _, _, _, _, _)
ChunkLoop(chunk_start, end, rsize, checks, ranges, fuel) ==
    IF chunk_start > end THEN Ranges(ranges)
    ELSE IF fuel = 0 THEN Hang
    ELSE LET sum == chunk_start + rsize
             ovf == Overflows(sum) \/ Overflows(Wrap(sum) - 1)
             chunk_end == Min(Wrap(Wrap(sum) - 1), end)
         IN  IF checks /\ ovf THEN Panic
             ELSE ChunkLoop(Wrap(sum), end, rsize, checks,
                            Append(ranges, <<chunk_start, chunk_end>>), fuel - 1)

compute_file_ranges(file_info, brange, rsize, checks) ==
    LET file_size == file_info.size
        file_start_offset == file_info.file_start_offset
        sum69 == file_start_offset + file_size
        ovf69 == Overflows(sum69) \/ Overflows(Wrap(sum69) - 1)
        file_end_offset == Wrap(Wrap(sum69) - 1)
        range_start_opt == brange[1]
        range_end_opt == brange[2]
        no_overlap ==
            /\ range_start_opt.some
            /\ range_end_opt.some
            /\ \/ file_end_offset < range_start_opt.val
               \/ file_start_offset > range_end_opt.val
        ovf82 == Overflows(file_size - 1)
        start0 == 0
        end0 == Wrap(file_size - 1)
        start1 == IF range_start_opt.some
                  THEN Max(start0, saturating_sub(range_start_opt.val, file_start_offset))
                  ELSE start0
        end1 == IF range_end_opt.some
                THEN Min(end0, saturating_sub(range_end_opt.val, file_start_offset))
                ELSE end0
        ovf92 == Overflows(start1 + file_info.data_start_offset)
        start == Wrap(start1 + file_info.data_start_offset)
        ovf93 == Overflows(end1 + file_info.data_start_offset)
        end == Wrap(end1 + file_info.data_start_offset)
    IN  IF checks /\ ovf69 THEN Panic
        ELSE IF no_overlap THEN NoRanges
        ELSE IF checks /\ (ovf82 \/ ovf92 \/ ovf93) THEN Panic
        ELSE ChunkLoop(start, end, rsize, checks, <<>>, usize_max + 2)

---------------------------------------------------------------------------
(* SpecPlan: the planner applied to each file of a manifest, in order *)

\* fetch_range_streaming has not been called
ReaderIdle ==
    /\ body = <<>>
    /\ sub_chunk_size = 1
    /\ buf = <<0>>
    /\ rpos = 0
    /\ yielded = <<>>
    /\ rpc = "idle"

\* no paired run
Unpaired == fail_at = 0 /\ observed = <<>>

StreamIdle ==
    /\ pc = "idle"
    /\ cur = 1
    /\ pos = 0
    /\ gen = "start"
    /\ inflight = <<>>
    /\ requests = <<>>
    /\ responses = <<>>
    /\ output = <<>>
    /\ delivered = <<>>
    /\ pulls = 0
    /\ consumer = "active"

InitPlan ==
    /\ files \in Manifests
    /\ byte_range \in ByteRanges
    /\ range_size \in PlanRangeSizes
    /\ overflow_checks \in BOOLEAN
    /\ impl = "plan"
    /\ usize_max = UsizeMax
    /\ plan = <<>>
    /\ StreamIdle
    /\ ReaderIdle
    /\ Unpaired

PlanFile ==
    /\ impl = "plan"
    /\ Len(plan) < Len(files)
    /\ plan' = Append(plan, compute_file_ranges(files[Len(plan) + 1], byte_range,
                                                range_size, overflow_checks))
    /\ UNCHANGED <<inputVars, restVars, streamVars>>

NextPlan == PlanFile

SpecPlan == InitPlan /\ [][NextPlan]_vars

\* the narrowest usize Rust has (16 bits): wide enough for inputs in the
\* hundreds
Usize16Max == 65535

\* manifests of one file of 1000 bytes, of two files of 500 bytes, and of one
\* file of 100 bytes, each stored from the head of its object
WideManifests ==
    { <<FileInfo(1000, 0, 0)>>,
      <<FileInfo(500, 0, 0), FileInfo(500, 500, 0)>>,
      <<FileInfo(100, 0, 0)>> }

WideOptBounds == {None, Some(200), Some(300), Some(400), Some(600)}

WideRangeSizes == {300, 1000}

\* SpecWide: the planner on a 16-bit target, on inputs in the hundreds
InitWide ==
    /\ files \in WideManifests
    /\ byte_range \in WideOptBounds \X WideOptBounds
    /\ range_size \in WideRangeSizes
    /\ overflow_checks \in BOOLEAN
    /\ impl = "plan"
    /\ usize_max = Usize16Max
    /\ plan = <<>>
    /\ StreamIdle
    /\ ReaderIdle
    /\ Unpaired

SpecWide == InitWide /\ [][NextPlan]_vars

---------------------------------------------------------------------------
(* stream_files: the lazy stream of lib.rs and the eager loop of s3.rs.     *)
(* Sizes and range sizes of Spec stay far below UsizeMax, where no sum of   *)
(* the two loops overflows.                                                 *)

\* `end` of the ranged read that starts at p
FetchEnd(p, size, rsize) == Min(p + rsize - 1, size - 1)

\* the ranged read (file, start, end) issued for file c at position p
Request(c, p) == <<c, p, FetchEnd(p, files[c].size, range_size)>>

Chunk(req) == <<"chunk", req[1], req[2], req[3]>>

Err(req) == <<"err", req[1], req[2], req[3]>>

\* a loop that re-enters one byte too far
ResumePosSkip(g, p, rsize) == IF g = "yielded" THEN p + rsize + 1 ELSE p

\* a loop that re-enters without `pos += range_size`
ResumePosStuck(g, p, rsize) == p

\* the file loop is entered at `pos = 0` and re-entered after a yield/push
\* with `pos += range_size`
ResumePos(g, p, rsize) == IF g = "yielded" THEN p + rsize ELSE p

RECURSIVE NextFetch(_, _)
\* from file c at position p, the (file, pos) of the next ranged read: files
\* whose loop condition `pos < size` fails are left for the next file;
\* file Len(files) + 1 when the manifest is exhausted
NextFetch(c, p) ==
    IF c > Len(files) THEN <<c, 0>>
    ELSE IF p < files[c].size THEN <<c, p>>
    ELSE NextFetch(c + 1, 0)

\* lib.rs: where flat_map continues: inside the current file's stream, or at
\* the next file once that stream has ended with an error
LibResume ==
    IF gen = "failed" THEN NextFetch(cur + 1, 0)
    ELSE NextFetch(cur, ResumePos(gen, pos, range_size))

\* the producer issues the ranged read at n and awaits it
Issue(n) ==
    /\ pc' = "fetching"
    /\ cur' = n[1]
    /\ pos' = n[2]
    /\ gen' = "await"
    /\ inflight' = Request(n[1], n[2])
    /\ requests' = Append(requests, Request(n[1], n[2]))

\* the manifest is exhausted
Finish(n) ==
    /\ pc' = "done"
    /\ cur' = n[1]
    /\ pos' = n[2]
    /\ gen' = "start"
    /\ UNCHANGED <<inflight, requests>>

\* lib.rs: the consumer polls the stream for its next element
LibPull ==
    /\ impl = "lib"
    /\ pc = "idle"
    /\ pulls' = pulls + 1
    /\ IF LibResume[1] > Len(files) THEN Finish(LibResume) ELSE Issue(LibResume)
    /\ UNCHANGED <<inputVars, restVars, plan, responses, output, delivered, consumer>>

\* lib.rs: fetch_range returns the bytes; the file stream yields the chunk
LibFetchOk ==
    /\ impl = "lib"
    /\ pc = "fetching"
    /\ pc' = "idle"
    /\ gen' = "yielded"
    /\ inflight' = <<>>
    /\ responses' = Append(responses, "ok")
    /\ delivered' = Append(delivered, Chunk(inflight))
    /\ UNCHANGED <<inputVars, restVars, plan, cur, pos, requests, output, pulls, consumer>>

\* lib.rs: fetch_range fails; `?` ends the file's stream with the error
LibFetchErr ==
    /\ impl = "lib"
    /\ pc = "fetching"
    /\ pc' = "idle"
    /\ gen' = "failed"
    /\ inflight' = <<>>
    /\ responses' = Append(responses, "err")
    /\ delivered' = Append(delivered, Err(inflight))
    /\ UNCHANGED <<inputVars, restVars, plan, cur, pos, requests, output, pulls, consumer>>

\* a producer detached from its consumer (a spawned task feeding a channel)
\* keeps running when the consumer goes away
DropDetached ==
    /\ impl = "lib"
    /\ pc \in {"idle", "fetching"}
    /\ consumer = "active"
    /\ consumer' = "dropped"
    /\ UNCHANGED <<inputVars, restVars, plan, pc, cur, pos, gen, inflight, requests, responses,
                   output, delivered, pulls>>

\* lib.rs: the consumer drops the stream before it is exhausted
Drop ==
    /\ impl = "lib"
    /\ pc \in {"idle", "fetching"}
    /\ consumer' = "dropped"
    /\ pc' = "dropped"
    /\ UNCHANGED <<inputVars, restVars, plan, cur, pos, gen, inflight, requests, responses,
                   output, delivered, pulls>>

\* lib.rs: the read in flight at the drop ends; nobody receives its result
Discard ==
    /\ impl = "lib"
    /\ pc = "dropped"
    /\ inflight # <<>>
    /\ inflight' = <<>>
    /\ responses' = Append(responses, "discarded")
    /\ UNCHANGED <<inputVars, restVars, plan, pc, cur, pos, gen, requests, output, delivered,
                   pulls, consumer>>

\* s3.rs: the caller runs stream_files: up to the first ranged read, or
\* to Ok(output) when no file has bytes
S3Call ==
    /\ impl = "s3"
    /\ pc = "idle"
    /\ pulls' = pulls + 1
    /\ IF NextFetch(1, 0)[1] > Len(files)
       THEN Finish(NextFetch(1, 0))
       ELSE Issue(NextFetch(1, 0))
    /\ UNCHANGED <<inputVars, restVars, plan, responses, output, delivered, consumer>>

\* s3.rs: the chunk is pushed and the loops go on: to the next ranged read,
\* or to Ok(output), which hands the whole vector to the caller
S3FetchOk ==
    /\ impl = "s3"
    /\ pc = "fetching"
    /\ responses' = Append(responses, "ok")
    /\ output' = Append(output, Chunk(inflight))
    /\ LET n == NextFetch(cur, ResumePos("yielded", pos, range_size))
       IN  IF n[1] > Len(files)
           THEN /\ pc' = "done"
                /\ cur' = n[1]
                /\ pos' = n[2]
                /\ gen' = "start"
                /\ inflight' = <<>>
                /\ delivered' = output'
                /\ UNCHANGED requests
           ELSE /\ Issue(n)
                /\ UNCHANGED delivered
    /\ UNCHANGED <<inputVars, restVars, plan, pulls, consumer>>

\* s3.rs: `?` returns the error; the output vector is dropped with the frame
S3FetchErr ==
    /\ impl = "s3"
    /\ pc = "fetching"
    /\ pc' = "done"
    /\ inflight' = <<>>
    /\ responses' = Append(responses, "err")
    /\ output' = <<>>
    /\ delivered' = <<Err(inflight)>>
    /\ UNCHANGED <<inputVars, restVars, plan, cur, pos, gen, requests, pulls, consumer>>

Init ==
    /\ files \in Manifests
    /\ byte_range = <<None, None>>
    /\ range_size \in RangeSizes
    /\ overflow_checks \in BOOLEAN
    /\ impl \in {"lib", "s3"}
    /\ usize_max = UsizeMax
    /\ plan = <<>>
    /\ StreamIdle
    /\ ReaderIdle
    /\ Unpaired

Next ==
    \/ LibPull
    \/ LibFetchOk
    \/ LibFetchErr
    \/ Drop
    \/ Discard
    \/ S3Call
    \/ S3FetchOk
    \/ S3FetchErr

Spec == Init /\ [][Next]_vars

\* SpecLive: no ranged read fails, every read is answered and the consumer
\* keeps polling until the stream ends
InitLive ==
    /\ files \in Manifests
    /\ byte_range = <<None, None>>
    /\ range_size \in PlanRangeSizes
    /\ overflow_checks \in BOOLEAN
    /\ impl \in {"lib", "s3"}
    /\ usize_max = UsizeMax
    /\ plan = <<>>
    /\ StreamIdle
    /\ ReaderIdle
    /\ Unpaired

NextLive ==
    \/ LibPull
    \/ LibFetchOk
    \/ S3Call
    \/ S3FetchOk

SpecLive == InitLive /\ [][NextLive]_vars /\ WF_vars(NextLive)

---------------------------------------------------------------------------
(* fetch_range_streaming: one ranged read, its body re-chunked through a   *)
(* buffer of sub_chunk_size bytes.  `reader.read(&mut buf)` follows the     *)
(* AsyncRead contract: it stores 1..len(buf) of the bytes that remain, as   *)
(* many as the transport has at hand, and 0 only at the end of the body.    *)

Bodies == UNION { [1..n -> 0..1] : n \in 0..MaxBody }

SubChunkSizes == 1..MaxSubChunk

\* a stream that yields the whole buffer, whatever `read` returned
YieldWhole(b, n) == b

\* Bytes::copy_from_slice(&buf[..n])
YieldSlice(b, n) == SubSeq(b, 1, n)

InitRead ==
    /\ files = <<>>
    /\ byte_range = <<None, None>>
    /\ range_size = 1
    /\ overflow_checks = FALSE
    /\ impl = "read"
    /\ usize_max = UsizeMax
    /\ plan = <<>>
    /\ StreamIdle
    /\ Unpaired
    /\ body \in Bodies
    /\ sub_chunk_size \in SubChunkSizes
    /\ buf = <<>>
    /\ rpos = 0
    /\ yielded = <<>>
    /\ rpc = "sending"

\* the request is answered; the stream allocates `buf`
SendOk ==
    /\ rpc = "sending"
    /\ rpc' = "reading"
    /\ buf' = [i \in 1..sub_chunk_size |-> 0]
    /\ UNCHANGED <<inputVars, plan, streamVars, observed, body, sub_chunk_size, rpos,
                   yielded>>

\* `send().await?` fails: no stream is returned
SendErr ==
    /\ rpc = "sending"
    /\ rpc' = "failed"
    /\ UNCHANGED <<inputVars, plan, streamVars, observed, body, sub_chunk_size, buf,
                   rpos, yielded>>

\* `read` stores n > 0 bytes at the head of `buf`; the stream yields them
Read(n) ==
    /\ rpc = "reading"
    /\ n >= 1
    /\ n <= Min(sub_chunk_size, Len(body) - rpos)
    /\ buf' = [i \in 1..sub_chunk_size |-> IF i <= n THEN body[rpos + i] ELSE buf[i]]
    /\ yielded' = Append(yielded, YieldSlice(buf', n))
    /\ rpos' = rpos + n
    /\ UNCHANGED <<inputVars, plan, streamVars, observed, body, sub_chunk_size, rpc>>

\* `read` returns 0: the stream ends
ReadEof ==
    /\ rpc = "reading"
    /\ rpos = Len(body)
    /\ rpc' = "done"
    /\ UNCHANGED <<inputVars, plan, streamVars, observed, body, sub_chunk_size, buf,
                   rpos, yielded>>

\* `read` fails: the stream ends with the error
ReadErr ==
    /\ rpc = "reading"
    /\ rpc' = "failed"
    /\ UNCHANGED <<inputVars, plan, streamVars, observed, body, sub_chunk_size, buf,
                   rpos, yielded>>

NextRead ==
    \/ SendOk
    \/ SendErr
    \/ \E n \in 1..MaxSubChunk : Read(n)
    \/ ReadEof
    \/ ReadErr

SpecRead == InitRead /\ [][NextRead]_vars

---------------------------------------------------------------------------
(* Properties of the planner (SpecPlan) *)

PlanComplete == impl = "plan" /\ Len(plan) = Len(files)

Produced(result) == result.kind \in {"Some", "None"}

TotalSize == IF Len(files) = 0 THEN 0
             ELSE files[Len(files)].file_start_offset + files[Len(files)].size

\* logical position p lies in byte_range and in the manifest's logical extent
InWindow(p) ==
    /\ 0 <= p /\ p <= TotalSize - 1
    /\ byte_range[1].some => p >= byte_range[1].val
    /\ byte_range[2].some => p <= byte_range[2].val

\* the fetch range r of file i, mapped back to logical coordinates
LogicalSpan(i, r) ==
    <<r[1] - files[i].data_start_offset + files[i].file_start_offset,
      r[2] - files[i].data_start_offset + files[i].file_start_offset>>

\* the (file, range) pairs whose logical span contains position p
Covering(p) ==
    { <<i, k>> \in (1..Len(plan)) \X (1..(UsizeMax + 2)) :
        /\ k <= Len(plan[i].ranges)
        /\ LogicalSpan(i, plan[i].ranges[k])[1] <= p
        /\ p <= LogicalSpan(i, plan[i].ranges[k])[2] }

IncreasingInFile(rs) ==
    /\ \A k \in 1..Len(rs) : rs[k][1] <= rs[k][2]
    /\ \A k \in 1..(Len(rs) - 1) : rs[k][2] < rs[k + 1][1]

\* C1: for every manifest with contiguous logical offsets, every logical range
\* and every chunk size >= 1, the fetch ranges of the whole manifest, mapped
\* back to logical coordinates, cover exactly the intersection of the range
\* with the logical extent [0, total_size - 1], each position once, and are
\* strictly increasing within each file.
C1_ExactCover ==
    PlanComplete =>
        /\ \A i \in 1..Len(plan) : Produced(plan[i]) /\ IncreasingInFile(plan[i].ranges)
        /\ \A p \in (0 - UsizeMax)..(2 * UsizeMax) :
              Cardinality(Covering(p)) = (IF InWindow(p) THEN 1 ELSE 0)

\* file i lies entirely before a present range start or after a present range end
OutsideRange(i) ==
    \/ /\ byte_range[1].some
       /\ files[i].file_start_offset + files[i].size - 1 < byte_range[1].val
    \/ /\ byte_range[2].some
       /\ files[i].file_start_offset > byte_range[2].val

\* C5: a file of size >= 1 that lies entirely before range.start (when present)
\* or entirely after range.end (when present) contributes zero fetch ranges
\* and no error, whichever of the two bounds are present.
C5_OutsideFilesSkipped ==
    \A i \in 1..Len(plan) :
        (files[i].size >= 1 /\ OutsideRange(i)) =>
            (Produced(plan[i]) /\ plan[i].ranges = <<>>)

\* C6: a file of size 0 produces no fetch ranges and the planner does not fail
\* on it (no underflow, no panic, no wrapped bound), at any logical offset and
\* under any range and chunk size.
C6_EmptyFileSkipped ==
    \A i \in 1..Len(plan) :
        files[i].size = 0 => (Produced(plan[i]) /\ plan[i].ranges = <<>>)

---------------------------------------------------------------------------
(* Properties of stream_files (Spec) *)

IsChunk(x) == x[1] = "chunk"

IsErr(x) == x[1] = "err"

\* the (file, start, end) of a delivered element
Tag(x) == <<x[2], x[3], x[4]>>

\* the chunks among the delivered elements, as (file, start, end)
DeliveredChunks ==
    LET cs == SelectSeq(delivered, IsChunk)
    IN  [k \in 1..Len(cs) |-> Tag(cs[k])]

ErrDelivered == \E k \in 1..Len(delivered) : IsErr(delivered[k])

FailureFree == \A k \in 1..Len(responses) : responses[k] # "err"

\* the run is over, nothing failed and the consumer took everything
FullyConsumed == pc = "done" /\ FailureFree /\ consumer = "active"

IsPrefix(s, t) == Len(s) <= Len(t) /\ s = SubSeq(t, 1, Len(s))

CeilDiv(a, b) == (a + b - 1) \div b

\* byte ranges 1, 2, ... of file i in steps of range_size
FileOrder(i) ==
    [k \in 1..CeilDiv(files[i].size, range_size) |->
        <<i, (k - 1) * range_size, Min(k * range_size - 1, files[i].size - 1)>>]

RECURSIVE OrderUpTo(_)
\* every byte range of files 1..n: file order, then range order
OrderUpTo(n) == IF n = 0 THEN <<>> ELSE OrderUpTo(n - 1) \o FileOrder(n)

\* (file, start) of a precedes (file, start) of b
Precedes(a, b) == a[1] < b[1] \/ (a[1] = b[1] /\ a[2] < b[2])

\* C2: chunks reach the consumer in plan order: file i before file i + 1, and
\* within a file range k before range k + 1; nothing is delivered out of
\* order or twice, and in a failure-free run nothing is skipped.
C2_DeliveredInPlanOrder ==
    /\ \A j \in 1..(Len(DeliveredChunks) - 1) :
          Precedes(DeliveredChunks[j], DeliveredChunks[j + 1])
    /\ FailureFree => IsPrefix(DeliveredChunks, OrderUpTo(Len(files)))
    /\ FullyConsumed => DeliveredChunks = OrderUpTo(Len(files))

C2_Witness ==
    /\ FullyConsumed
    /\ Len(files) = 2
    /\ \E j \in 2..(Len(DeliveredChunks) - 2) :
          /\ DeliveredChunks[j - 1][1] = 1 /\ DeliveredChunks[j][1] = 1
          /\ DeliveredChunks[j + 1][1] = 2 /\ DeliveredChunks[j + 2][1] = 2

RECURSIVE PlannedUpTo(_)
\* the fetch ranges compute_file_ranges yields for files 1..n, as requests
PlannedUpTo(n) ==
    IF n = 0 THEN <<>>
    ELSE LET rs == compute_file_ranges(files[n], byte_range, range_size,
                                       overflow_checks).ranges
         IN  PlannedUpTo(n - 1) \o [k \in 1..Len(rs) |-> <<n, rs[k][1], rs[k][2]>>]

\* C3: in a failure-free, fully consumed run of the stream of lib.rs the
\* ranged reads issued are exactly the fetch ranges of compute_file_ranges for
\* each file in manifest order, each requested once, also for files with
\* data_offset > 0.
C3_RequestsArePlan ==
    (impl = "lib" /\ FullyConsumed) => requests = PlannedUpTo(Len(files))

\* C4: once a ranged read has failed, the error is the last element the
\* consumer receives and no further ranged read is issued, neither for the
\* same file nor for a later file.
C4_ErrorEndsStream ==
    [][ErrDelivered => (delivered' = delivered /\ requests' = requests)]_vars

\* C7: no ranged read is issued before the consumer asks for the first
\* element, and the number of ranged reads issued never exceeds the number of
\* elements the consumer has asked for.
C7_NoReadAhead == Len(requests) <= pulls

\* C8: after the consumer has dropped the stream no new ranged read begins
\* and nothing more is delivered; only the read in flight at the drop may
\* end, its result discarded.
C8_NoRequestAfterDrop ==
    [][consumer = "dropped" =>
          /\ requests' = requests
          /\ delivered' = delivered
          /\ inflight' # inflight => (inflight' = <<>> /\ responses' = Append(responses, "discarded"))]_vars

C8_Witness ==
    /\ consumer = "dropped"
    /\ Len(requests) >= 2
    /\ Len(requests) < Len(OrderUpTo(Len(files)))
    /\ inflight = <<>>
    /\ responses[Len(responses)] = "discarded"

\* the bytes start..end of the object of file f, each byte named by its
\* object and its offset in it
ObjectBytes(f, start, end) == [k \in 1..(end - start + 1) |-> <<f, start + k - 1>>]

RECURSIVE ConcatBytes(_, _)
\* the contents of the first n delivered chunks, concatenated
ConcatBytes(chunks, n) ==
    IF n = 0 THEN <<>>
    ELSE ConcatBytes(chunks, n - 1) \o ObjectBytes(chunks[n][1], chunks[n][2], chunks[n][3])

RECURSIVE WindowUpTo(_)
\* the virtual concatenation of files 1..n: file i is the bytes
\* data_offset .. data_offset + size - 1 of its object
WindowUpTo(n) ==
    IF n = 0 THEN <<>>
    ELSE WindowUpTo(n - 1) \o
         ObjectBytes(n, files[n].data_start_offset,
                     files[n].data_start_offset + files[n].size - 1)

\* C9: in a failure-free, fully consumed run the delivered chunks,
\* concatenated in delivery order, are exactly the bytes of the requested
\* window of the virtual concatenation.
C9_ContentIsWindow ==
    FullyConsumed => ConcatBytes(DeliveredChunks, Len(DeliveredChunks)) = WindowUpTo(Len(files))

\* the chunks produced by the ranged reads that completed before request m
ProducedBefore(m) ==
    LET idx == SelectSeq([k \in 1..(m - 1) |-> k], LAMBDA k : responses[k] = "ok")
    IN  [k \in 1..Len(idx) |-> requests[idx[k]]]

\* the chunks delivered before the j-th delivered element
DeliveredBefore(j) ==
    LET cs == SelectSeq(SubSeq(delivered, 1, j - 1), IsChunk)
    IN  [k \in 1..Len(cs) |-> Tag(cs[k])]

\* C10: when a ranged read fails after k chunks have been produced, the
\* consumer receives exactly those k chunks, in order, before the error.
C10_ChunksBeforeError ==
    \A j \in 1..Len(delivered) :
        IsErr(delivered[j]) =>
            \E m \in 1..Len(responses) :
                /\ requests[m] = Tag(delivered[j])
                /\ responses[m] = "err"
                /\ DeliveredBefore(j) = ProducedBefore(m)

---------------------------------------------------------------------------
(* Properties of fetch_range_streaming (SpecRead) *)

RECURSIVE Flatten(_, _)
\* the first n buffers, concatenated
Flatten(bufs, n) == IF n = 0 THEN <<>> ELSE Flatten(bufs, n - 1) \o bufs[n]

\* C11: a buffer is yielded only when it is full or the body is exhausted:
\* however the body is split into reads, every yielded buffer but the last
\* has exactly sub_chunk_size bytes and the last has 1..sub_chunk_size.
C11_YieldOnlyWhenFull ==
    rpc = "done" =>
        /\ \A k \in 1..(Len(yielded) - 1) : Len(yielded[k]) = sub_chunk_size
        /\ yielded # <<>> =>
              /\ Len(yielded[Len(yielded)]) >= 1
              /\ Len(yielded[Len(yielded)]) <= sub_chunk_size

\* C12: every yielded buffer has 1..sub_chunk_size bytes, the buffers are
\* finitely many, the stream ends when the body signals its end, and the
\* buffers concatenated in order are the body.
C12_BuffersAreBody ==
    /\ \A k \in 1..Len(yielded) :
          Len(yielded[k]) >= 1 /\ Len(yielded[k]) <= sub_chunk_size
    /\ Len(yielded) <= Len(body)
    /\ Flatten(yielded, Len(yielded)) = SubSeq(body, 1, rpos)
    /\ rpc = "done" => Flatten(yielded, Len(yielded)) = body

C12_Witness ==
    /\ rpc = "done"
    /\ Len(body) >= 3
    /\ Len(yielded) >= 2
    /\ \E k \in 1..(Len(yielded) - 1) : Len(yielded[k]) < sub_chunk_size
    /\ \E k \in 1..Len(yielded) : Len(yielded[k]) = sub_chunk_size

---------------------------------------------------------------------------
(* Further properties of the planner (SpecPlan, SpecWide) *)

\* the part of file i's logical extent that byte_range selects
ClipStart(i) ==
    IF byte_range[1].some
    THEN Max(files[i].file_start_offset, byte_range[1].val)
    ELSE files[i].file_start_offset

ClipEnd(i) ==
    IF byte_range[2].some
    THEN Min(files[i].file_start_offset + files[i].size - 1, byte_range[2].val)
    ELSE files[i].file_start_offset + files[i].size - 1

\* a logical position of file i as an offset in its object
Absolute(i, p) == p - files[i].file_start_offset + files[i].data_start_offset

\* C13: a file whose clipped span is not empty, planned with a chunk size
\* strictly larger than that span, yields exactly one fetch range: (absolute
\* clipped start, absolute clipped end).
C13_OneRangeWhenChunkLarger ==
    \A i \in 1..Len(plan) :
        ( /\ files[i].size >= 1
          /\ ClipStart(i) <= ClipEnd(i)
          /\ range_size > ClipEnd(i) - ClipStart(i) + 1 ) =>
            plan[i] = Ranges(<< <<Absolute(i, ClipStart(i)), Absolute(i, ClipEnd(i))>> >>)

IsScenarioB ==
    /\ files = <<FileInfo(500, 0, 0), FileInfo(500, 500, 0)>>
    /\ byte_range = <<Some(400), Some(600)>>
    /\ range_size = 1000
    /\ Len(plan) = 2

\* C15 as stated: in scenario B (two files of 500 bytes at logical offsets 0
\* and 500, range (400, 600), chunk size 1000) file 1 yields exactly (100, 499)
\* and file 2 exactly (0, 100).
C15_ScenarioB_AsStated ==
    IsScenarioB =>
        /\ plan[1] = Ranges(<< <<100, 499>> >>)
        /\ plan[2] = Ranges(<< <<0, 100>> >>)

\* C15 amended: in scenario B file 1 yields exactly (400, 499), its local
\* bytes 400..499 at data offset 0, and file 2 exactly (0, 100).
C15_ScenarioB ==
    IsScenarioB =>
        /\ plan[1] = Ranges(<< <<400, 499>> >>)
        /\ plan[2] = Ranges(<< <<0, 100>> >>)

C15_Witness == IsScenarioB /\ plan[1].kind = "Some" /\ plan[2].kind = "Some"

\* the local bounds of section 4.1 step 3: clamped at 0, never wrapped
LocalStart(i) ==
    IF byte_range[1].some
    THEN Max(0, saturating_sub(byte_range[1].val, files[i].file_start_offset))
    ELSE 0

LocalEnd(i) ==
    IF byte_range[2].some
    THEN Min(files[i].size - 1,
             saturating_sub(byte_range[2].val, files[i].file_start_offset))
    ELSE files[i].size - 1

\* C16: within one file the fetch ranges are consecutive: the first starts at
\* the absolute clipped start, each next one starts at the previous end + 1,
\* every range but the last has exactly chunk_size bytes, and the last ends
\* at the absolute clipped end.
C16_ConsecutiveChunks ==
    \A i \in 1..Len(plan) :
        (files[i].size >= 1 /\ plan[i].kind = "Some" /\ LocalStart(i) <= LocalEnd(i)) =>
            LET rs == plan[i].ranges
            IN  /\ rs # <<>>
                /\ rs[1][1] = LocalStart(i) + files[i].data_start_offset
                /\ rs[Len(rs)][2] = LocalEnd(i) + files[i].data_start_offset
                /\ \A k \in 1..(Len(rs) - 1) :
                      /\ rs[k + 1][1] = rs[k][2] + 1
                      /\ rs[k][2] - rs[k][1] + 1 = range_size
                /\ rs[Len(rs)][1] <= rs[Len(rs)][2]
                /\ rs[Len(rs)][2] - rs[Len(rs)][1] + 1 <= range_size

\* C16's example: 1000 bytes in chunks of 300, no range
C16_ScenarioA ==
    ( /\ files = <<FileInfo(1000, 0, 0)>>
      /\ byte_range = <<None, None>>
      /\ range_size = 300
      /\ Len(plan) = 1 ) =>
        plan[1] = Ranges(<< <<0, 299>>, <<300, 599>>, <<600, 899>>, <<900, 999>> >>)

\* C17: every fetch range (s, e) of a file of size >= 1 satisfies
\* data_offset <= s <= e <= data_offset + size - 1: no byte outside the
\* file's data region is requested and no range is inverted.
C17_RangesInsideData ==
    \A i \in 1..Len(plan) :
        files[i].size >= 1 =>
            \A k \in 1..Len(plan[i].ranges) :
                /\ files[i].data_start_offset <= plan[i].ranges[k][1]
                /\ plan[i].ranges[k][1] <= plan[i].ranges[k][2]
                /\ plan[i].ranges[k][2] <= files[i].data_start_offset + files[i].size - 1

\* the plan of file i computed with unbounded integers
ExactPlan(i) ==
    LET s == LocalStart(i) + files[i].data_start_offset
        e == LocalEnd(i) + files[i].data_start_offset
        n == IF s > e THEN 0 ELSE (e - s + range_size) \div range_size
    IN  IF /\ byte_range[1].some
           /\ byte_range[2].some
           /\ \/ files[i].file_start_offset + files[i].size - 1 < byte_range[1].val
              \/ files[i].file_start_offset > byte_range[2].val
        THEN NoRanges
        ELSE Ranges([k \in 1..n |->
                        <<s + (k - 1) * range_size, Min(s + k * range_size - 1, e)>>])

\* C18: on w-bit unsigned integers, for size >= 1, any chunk size in
\* 1 .. 2^w - 1 and representable logical_offset + size and data_offset + size,
\* nothing in compute_file_ranges wraps: the loop ends and the ranges are
\* those computed with unbounded integers.
C18_NoWrap ==
    \A i \in 1..Len(plan) :
        ( /\ files[i].size >= 1
          /\ files[i].file_start_offset + files[i].size <= usize_max
          /\ files[i].data_start_offset + files[i].size <= usize_max ) =>
            plan[i] = ExactPlan(i)

---------------------------------------------------------------------------
(* Termination of stream_files (SpecLive) *)

RECURSIVE RequestsUpTo(_)
\* the sum over files 1..n of ceil(size / range_size)
RequestsUpTo(n) ==
    IF n = 0 THEN 0
    ELSE RequestsUpTo(n - 1) + CeilDiv(files[n].size, range_size)

\* C14: when no ranged read fails and the consumer keeps pulling, the output
\* of stream_files ends, after exactly the sum over the files of
\* ceil(size / chunk_size) ranged reads.
C14_EndsAfterAllRequests ==
    /\ <>(pc = "done")
    /\ [](pc = "done" => Len(requests) = RequestsUpTo(Len(files)))

C14_Witness ==
    /\ pc = "done"
    /\ Len(files) = 2
    /\ files[1].size > range_size
    /\ files[1].size % range_size # 0
    /\ files[2].size >= 1
    /\ Len(requests) = RequestsUpTo(2)

---------------------------------------------------------------------------
(* SpecPair: the lazy stream of lib.rs, then the eager loop of s3.rs, run   *)
(* on the same manifest against a store that fails the same ranged read     *)
(* (the fail_at-th, none when fail_at = 0).  The consumer of the lazy       *)
(* stream polls to the end, or to the first error.                          *)

\* the store answers the next ranged read
AnswersOk == Len(responses) + 1 # fail_at

\* the store fails the next ranged read
AnswersErr == Len(responses) + 1 = fail_at

InitPair ==
    /\ files \in Manifests
    /\ byte_range = <<None, None>>
    /\ range_size \in RangeSizes
    /\ overflow_checks = FALSE
    /\ impl = "lib"
    /\ usize_max = UsizeMax
    /\ fail_at \in 0..(MaxFiles * MaxSize)
    /\ observed = <<>>
    /\ plan = <<>>
    /\ StreamIdle
    /\ ReaderIdle

PairLibPull == gen # "failed" /\ LibPull

PairLibFetchOk == AnswersOk /\ LibFetchOk

PairLibFetchErr == AnswersErr /\ LibFetchErr

\* the lazy run is over: its requests and chunks are kept, and the eager
\* stream_files is called with the same arguments
Handover ==
    /\ impl = "lib"
    /\ pc = "done" \/ (pc = "idle" /\ gen = "failed")
    /\ observed' = <<requests, DeliveredChunks>>
    /\ impl' = "s3"
    /\ pc' = "idle"
    /\ cur' = 1
    /\ pos' = 0
    /\ gen' = "start"
    /\ inflight' = <<>>
    /\ requests' = <<>>
    /\ responses' = <<>>
    /\ output' = <<>>
    /\ delivered' = <<>>
    /\ pulls' = 0
    /\ UNCHANGED <<files, byte_range, range_size, overflow_checks, usize_max, fail_at,
                   plan, consumer, readerVars>>

PairS3FetchOk == AnswersOk /\ S3FetchOk

PairS3FetchErr == AnswersErr /\ S3FetchErr

NextPair ==
    \/ PairLibPull
    \/ PairLibFetchOk
    \/ PairLibFetchErr
    \/ Handover
    \/ S3Call
    \/ PairS3FetchOk
    \/ PairS3FetchErr

SpecPair == InitPair /\ [][NextPair]_vars

\* C19: for a consumer that pulls to the end the two stream_files are
\* observationally equivalent: on every manifest they issue the same ranged
\* reads and deliver the same chunks when nothing fails, and the same reads
\* and chunks up to the failure when the j-th read fails.
C19_LazyEqualsEager ==
    (impl = "s3" /\ pc = "done") =>
        /\ requests = observed[1]
        /\ DeliveredChunks = observed[2]

===========================================================================
